---- MODULE Spec2Model ----
(***************************************************************************)
(* A model of app/main.py of library_manager: the Book validators, the    *)
(* Library catalog with its JSON file, and the LibraryManager menu loop    *)
(* with its handlers.                                                      *)
(*                                                                         *)
(* A Python str is a sequence of characters; a character is a one-letter   *)
(* TLA+ string.  The two Cyrillic stand-ins "cyr_zh" and "CYR_ZH" are one  *)
(* character each (a lower-case and an upper-case Cyrillic letter).        *)
(***************************************************************************)
EXTENDS Integers, Sequences, FiniteSets, TLC

VARIABLES
    books_data,     \* Library._books_data: the list of book dicts
    file,           \* the content of app/library.json
    pc,             \* where run() is: the menu, a handler's input loop, or ended
    last,           \* the step just taken: what was typed, the outcome, the output
    assigned_ids,   \* history: every id a successful _add_book has assigned
    find,           \* the locals of one _find_book_in_the_library call
    checked         \* one call of a Book validator: its argument and its outcome

vars == <<books_data, file, pc, last, assigned_ids, find, checked>>

----------------------------------------------------------------------------
(* Bounds of the model *)

\* no book is added with an id above MaxId
MaxId == 3
\* the ids of the catalogs the binary search is run on are 0..MaxFindId
MaxFindId == 4
\* the authors and the titles the validators are tried on have at most this many characters
MaxAuthorLen == 5
MaxTitleLen == 5
\* the years tried are at most this far from 0 and from the current year
MaxYearOffset == 3
\* the lists found in the file at the start have at most this many books
MaxStored == 3

----------------------------------------------------------------------------
(* Python str operations *)

LowerChars ==
    <<"a","b","c","d","e","f","g","h","i","j","k","l","m",
      "n","o","p","q","r","s","t","u","v","w","x","y","z","cyr_zh">>
UpperChars ==
    <<"A","B","C","D","E","F","G","H","I","J","K","L","M",
      "N","O","P","Q","R","S","T","U","V","W","X","Y","Z","CYR_ZH">>
DigitChars == <<"0","1","2","3","4","5","6","7","8","9">>

Range(s) == {s[i] : i \in DOMAIN s}
IndexIn(c, s) == CHOOSE i \in DOMAIN s : s[i] = c

Letters == Range(LowerChars) \cup Range(UpperChars)
Digits  == Range(DigitChars)
Spaces  == {" ", "\t"}

\* the regex class [A-Za-zА-Яа-яЁё]
IsLetter(c) == c \in Letters
\* the regex class \d
IsDigit(c) == c \in Digits
\* the regex class \s and the characters str.strip() removes
IsSpace(c) == c \in Spaces

UpperOf == [c \in Letters |->
               IF c \in Range(LowerChars) THEN UpperChars[IndexIn(c, LowerChars)] ELSE c]
LowerOf == [c \in Letters |->
               IF c \in Range(UpperChars) THEN LowerChars[IndexIn(c, UpperChars)] ELSE c]
DigitOf == [c \in Digits |-> IndexIn(c, DigitChars) - 1]

ToUpper(c) == IF c \in Letters THEN UpperOf[c] ELSE c
ToLower(c) == IF c \in Letters THEN LowerOf[c] ELSE c

\* str.lower()
PyLower(s) == [i \in DOMAIN s |-> ToLower(s[i])]

\* str.title(): a letter that follows a letter is lower-cased, any other letter
\* is upper-cased, every other character is kept
PyTitle(s) ==
    [i \in DOMAIN s |->
        IF IsLetter(s[i])
        THEN IF i > 1 /\ IsLetter(s[i - 1]) THEN ToLower(s[i]) ELSE ToUpper(s[i])
        ELSE s[i]]

Min(S) == CHOOSE i \in S : \A j \in S : i <= j
Max(S) == CHOOSE i \in S : \A j \in S : i >= j

\* s from the first to the last of the places in keep
Between(s, keep) == IF keep = {} THEN <<>> ELSE SubSeq(s, Min(keep), Max(keep))

\* str.strip()
PyStrip(s) == Between(s, {i \in DOMAIN s : ~IsSpace(s[i])})

\* the places where sep occurs in s
Occurrences(s, sep) ==
    {i \in 1..(Len(s) - Len(sep) + 1) : SubSeq(s, i, i + Len(sep) - 1) = sep}

\* str.split(sep): cut at the occurrences of sep, leftmost first, not overlapping
RECURSIVE PySplit(_, _)
SplitAt(s, sep, i) ==
    <<SubSeq(s, 1, i - 1)>> \o PySplit(SubSeq(s, i + Len(sep), Len(s)), sep)
PySplit(s, sep) ==
    IF Occurrences(s, sep) = {} THEN <<s>> ELSE SplitAt(s, sep, Min(Occurrences(s, sep)))

\* the value of a run of decimal digits
RECURSIVE DigitsValue(_)
DigitsValue(s) ==
    IF s = <<>> THEN 0
    ELSE 10 * DigitsValue(SubSeq(s, 1, Len(s) - 1)) + DigitOf[s[Len(s)]]

\* int(str): surrounding whitespace is dropped, then an optional sign and at
\* least one digit; anything else raises ValueError (ok = FALSE).  The lines
\* typed in this model hold no "_", which int() lets stand between digits.
SignedInt(sign, digits) ==
    IF digits # <<>> /\ \A i \in DOMAIN digits : IsDigit(digits[i])
    THEN [ok |-> TRUE,
          n  |-> IF sign = "-" THEN 0 - DigitsValue(digits) ELSE DigitsValue(digits)]
    ELSE [ok |-> FALSE, n |-> 0]
StrippedInt(t) ==
    IF t # <<>> /\ t[1] \in {"-", "+"} THEN SignedInt(t[1], Tail(t)) ELSE SignedInt("+", t)
PyInt(s) == StrippedInt(PyStrip(s))

----------------------------------------------------------------------------
(* class Book *)

\* date.today().year
CurrentYear == 2026

\* Book._status values: "В наличии" and "Выдана"
AVAILABLE == "AVAILABLE"
CHECKED_OUT == "CHECKED_OUT"

\* the punctuation of the title classes: \.,;:!?()\'\"\-
TitlePunct == {".", ",", ";", ":", "!", "?", "(", ")", "'", "\"", "-"}

\* ^[A-Za-zА-Яа-яЁё]{2}[A-Za-zА-Яа-яЁё0-9\s\.,;:!?()\'\"\-]*$
TitleWords(s) ==
    /\ Len(s) >= 2
    /\ IsLetter(s[1]) /\ IsLetter(s[2])
    /\ \A i \in 3..Len(s) :
          IsLetter(s[i]) \/ IsDigit(s[i]) \/ IsSpace(s[i]) \/ s[i] \in TitlePunct

\* TitleNumbered with a fault: nothing need follow the digits
TitleNumberedBare(s) ==
    \E k \in 1..4 :
        /\ k <= Len(s)
        /\ \A i \in 1..k : IsDigit(s[i])
        /\ \A i \in (k + 1)..Len(s) :
              IsLetter(s[i]) \/ IsSpace(s[i]) \/ s[i] \in TitlePunct

\* ^\d{1,4}[A-Za-zА-Яа-яЁё\s\.,;:!?()\'\"\-]+$
TitleNumbered(s) ==
    \E k \in 1..4 :
        /\ k < Len(s)
        /\ \A i \in 1..k : IsDigit(s[i])
        /\ \A i \in (k + 1)..Len(s) :
              IsLetter(s[i]) \/ IsSpace(s[i]) \/ s[i] \in TitlePunct

\* ^\d{4}$
TitleYear(s) == Len(s) = 4 /\ \A i \in 1..4 : IsDigit(s[i])

\* re.search(regex, title) with match.group(0) == title: the whole title matches
\* one of the three alternatives
TitleMatches(s) == TitleWords(s) \/ TitleNumbered(s) \/ TitleYear(s)

\* Book._validate_title: ok = FALSE stands for the ValueError
ValidateTitle(title) ==
    IF TitleMatches(title)
    THEN [ok |-> TRUE, value |-> PyTitle(PyStrip(title))]
    ELSE [ok |-> FALSE, value |-> <<>>]

\* the separator class ['\-\s]
IsAuthorSep(c) == c \in {"'", "-"} \/ IsSpace(c)

\* AuthorGroups with a fault: separators may follow one another
AuthorGroupsTwoSeps(s) ==
    /\ Len(s) >= 4
    /\ \A i \in DOMAIN s : IsLetter(s[i]) \/ IsAuthorSep(s[i])
    /\ IsLetter(s[1]) /\ IsLetter(s[2])
    /\ IsLetter(s[Len(s)])
    /\ \E i \in DOMAIN s : IsAuthorSep(s[i])

\* ^[A-Za-zА-Яа-яЁё]{2,}(?:['\-\s][A-Za-zА-Яа-яЁё]+)+$ : two or more letters,
\* then one or more groups of one separator and one or more letters
AuthorGroups(s) ==
    /\ Len(s) >= 4
    /\ \A i \in DOMAIN s : IsLetter(s[i]) \/ IsAuthorSep(s[i])
    /\ IsLetter(s[1]) /\ IsLetter(s[2])
    /\ IsLetter(s[Len(s)])
    /\ \E i \in DOMAIN s : IsAuthorSep(s[i])
    /\ \A i \in 1..(Len(s) - 1) : ~(IsAuthorSep(s[i]) /\ IsAuthorSep(s[i + 1]))

\* ^[A-Za-zА-Яа-яЁё]{5,}$
AuthorSingle(s) == Len(s) >= 5 /\ \A i \in DOMAIN s : IsLetter(s[i])

AuthorMatches(s) == AuthorGroups(s) \/ AuthorSingle(s)

\* Book._validate_author
ValidateAuthor(author) ==
    IF AuthorMatches(author)
    THEN [ok |-> TRUE, value |-> PyTitle(PyStrip(author))]
    ELSE [ok |-> FALSE, value |-> <<>>]

\* YearInRange with a fault: the year 0 passes
YearInRangeZero(parsed) ==
    IF ~parsed.ok THEN [ok |-> FALSE, value |-> 0]
    ELSE IF parsed.n < 0 \/ parsed.n > CurrentYear THEN [ok |-> FALSE, value |-> 0]
    ELSE [ok |-> TRUE, value |-> parsed.n]

\* Book._validate_year: int(year), then 0 < year <= the current year
YearInRange(parsed) ==
    IF ~parsed.ok THEN [ok |-> FALSE, value |-> 0]
    ELSE IF parsed.n <= 0 \/ parsed.n > CurrentYear THEN [ok |-> FALSE, value |-> 0]
    ELSE [ok |-> TRUE, value |-> parsed.n]
ValidateYear(year) == YearInRange(PyInt(year))

\* NewId with a fault: the last id is taken as it is
NewIdSame(last_added_book_id) == last_added_book_id

\* Book.__init__: self._id = last_added_book_id + 1
NewId(last_added_book_id) == last_added_book_id + 1

NoBook == [id |-> 0, title |-> <<>>, author |-> <<>>, year |-> 0, status |-> AVAILABLE]

\* Validated with a fault: the new book is given out at once
ValidatedOut(id, t, a, y) ==
    IF t.ok /\ a.ok /\ y.ok
    THEN [ok |-> TRUE,
          book |-> [id |-> id, title |-> t.value, author |-> a.value, year |-> y.value,
                    status |-> CHECKED_OUT]]
    ELSE [ok |-> FALSE, book |-> NoBook]

\* Book(last_added_book_id, title, author, year).to_dict(); ok = FALSE stands for
\* the ValueError of the first validator that fails
Validated(id, t, a, y) ==
    IF t.ok /\ a.ok /\ y.ok
    THEN [ok |-> TRUE,
          book |-> [id |-> id, title |-> t.value, author |-> a.value, year |-> y.value,
                    status |-> AVAILABLE]]
    ELSE [ok |-> FALSE, book |-> NoBook]
Book(last_added_book_id, title, author, year) ==
    Validated(NewId(last_added_book_id),
              ValidateTitle(title), ValidateAuthor(author), ValidateYear(year))

----------------------------------------------------------------------------
(* class LibraryManager: the operations on the catalog *)

\* Python values of two types: a str never equals an int
StrValue(s) == [type |-> "str", s |-> s, n |-> 0]
IntValue(n) == [type |-> "int", s |-> <<>>, n |-> n]

TitleKey  == <<"t","i","t","l","e">>
AuthorKey == <<"a","u","t","h","o","r">>
YearKey   == <<"y","e","a","r">>

\* book.get(search_field), for the three keys the search lets through
Get(book, key) ==
    IF key = TitleKey THEN StrValue(book.title)
    ELSE IF key = AuthorKey THEN StrValue(book.author)
    ELSE IntValue(book.year)

\* search_field.lower().strip()
SearchField(raw_field) == PyStrip(PyLower(raw_field))

\* search_value.title().strip()
SearchValue(raw_value) == PyStrip(PyTitle(raw_value))

\* AllowedField with a fault: the check of the field name is left out
AllowedFieldAny(search_field) == TRUE

\* search_field in ("title", "author", "year")
AllowedField(search_field) == search_field \in {TitleKey, AuthorKey, YearKey}

\* the separator of "<field> = <value>"
QuerySep == <<" ", "=", " ">>

\* _search_books_by(search_query, return_book_obj): result is "ok" or the
\* exception raised, found the books returned (or printed)
SearchResults(search_results, return_book_obj) ==
    IF search_results # <<>> \/ return_book_obj
    THEN [result |-> "ok", found |-> search_results]
    ELSE [result |-> "NotFoundInTheLibrary", found |-> <<>>]
SearchIn(books, search_field, search_value, return_book_obj) ==
    IF ~AllowedField(search_field)
    THEN [result |-> "IncorrectSearchFields", found |-> <<>>]
    ELSE SearchResults(
            SelectSeq(books, LAMBDA book : Get(book, search_field) = StrValue(search_value)),
            return_book_obj)
SearchParts(books, parts, return_book_obj) ==
    IF Len(parts) # 2 THEN [result |-> "ValueError", found |-> <<>>]
    ELSE SearchIn(books, SearchField(parts[1]), SearchValue(parts[2]), return_book_obj)
SearchBooksBy(books, search_query, return_book_obj) ==
    SearchParts(books, PySplit(search_query, QuerySep), return_book_obj)

\* Narrow with a fault: the upper half is kept with mid in it
NarrowNoProgress(id, book_id, low_bound, high_bound, mid) ==
    IF id = book_id
    THEN [done |-> TRUE, result |-> mid, low_bound |-> low_bound, high_bound |-> high_bound]
    ELSE IF id > book_id
    THEN [done |-> FALSE, result |-> -1, low_bound |-> low_bound, high_bound |-> mid - 1]
    ELSE [done |-> FALSE, result |-> -1, low_bound |-> mid, high_bound |-> high_bound]

\* the body of the loop of _find_book_in_the_library, id being the id at mid
Narrow(id, book_id, low_bound, high_bound, mid) ==
    IF id = book_id
    THEN [done |-> TRUE, result |-> mid, low_bound |-> low_bound, high_bound |-> high_bound]
    ELSE IF id > book_id
    THEN [done |-> FALSE, result |-> -1, low_bound |-> low_bound, high_bound |-> mid - 1]
    ELSE [done |-> FALSE, result |-> -1, low_bound |-> mid + 1, high_bound |-> high_bound]

\* mid = (low_bound + high_bound) // 2
Mid(low_bound, high_bound) == (low_bound + high_bound) \div 2

\* one turn of the loop of _find_book_in_the_library (low_bound <= high_bound);
\* the list is indexed from 0
FindIter(books, book_id, low_bound, high_bound) ==
    Narrow(books[Mid(low_bound, high_bound) + 1].id, book_id, low_bound, high_bound,
           Mid(low_bound, high_bound))

RECURSIVE FindLoop(_, _, _, _)
FindTurn(books, book_id, it) ==
    IF it.done THEN it.result ELSE FindLoop(books, book_id, it.low_bound, it.high_bound)
FindLoop(books, book_id, low_bound, high_bound) ==
    IF low_bound > high_bound THEN -1
    ELSE FindTurn(books, book_id, FindIter(books, book_id, low_bound, high_bound))

\* _find_book_in_the_library(book_id, return_index=True): the index, or -1
FindBook(books, book_id) == FindLoop(books, book_id, 0, Len(books) - 1)

\* AlreadyIn with a fault: only the first book of the author is compared
AlreadyInFirst(same_author, new_book) ==
    /\ same_author # <<>>
    /\ same_author[1].title = new_book.title
    /\ same_author[1].year = new_book.year

\* AlreadyIn with a fault: the titles are not compared
AlreadyInYearOnly(same_author, new_book) ==
    \E i \in DOMAIN same_author : same_author[i].year = new_book.year

\* _add_book, the loop over the books of the same author
AlreadyIn(same_author, new_book) ==
    \E i \in DOMAIN same_author :
        /\ same_author[i].title = new_book.title
        /\ same_author[i].year = new_book.year

\* Insert with a fault: the new book is put first
InsertFirst(books, book) == <<book>> \o books

\* self.library.books_data.append(new_book.to_dict())
Insert(books, book) == Append(books, book)

\* _add_book(title, author, year)
\* the id of the last book of the list, 0 when there is none
LastAddedBookId(books) == IF books # <<>> THEN books[Len(books)].id ELSE 0

\* AddUnique with a fault: the book is appended before it is looked for
AddUniqueLate(books, new_book, same_author) ==
    IF same_author.result # "ok" THEN [result |-> same_author.result, books |-> books]
    ELSE IF AlreadyIn(same_author.found, new_book)
    THEN [result |-> "AlreadyInTheLibrary", books |-> Insert(books, new_book)]
    ELSE [result |-> "ok", books |-> Insert(books, new_book)]

AddUnique(books, new_book, same_author) ==
    IF same_author.result # "ok" THEN [result |-> same_author.result, books |-> books]
    ELSE IF AlreadyIn(same_author.found, new_book)
    THEN [result |-> "AlreadyInTheLibrary", books |-> books]
    ELSE [result |-> "ok", books |-> Insert(books, new_book)]
AddNew(books, new) ==
    IF ~new.ok THEN [result |-> "ValueError", books |-> books]
    ELSE AddUnique(books, new.book,
                   SearchBooksBy(books, AuthorKey \o QuerySep \o new.book.author, TRUE))
AddBook(books, title, author, year) ==
    AddNew(books, Book(LastAddedBookId(books), title, author, year))

\* Pop with a fault: the book after the one found is removed when there is one
PopNext(books, index) ==
    IF index + 2 <= Len(books)
    THEN SubSeq(books, 1, index + 1) \o SubSeq(books, index + 3, Len(books))
    ELSE SubSeq(books, 1, index)

\* list.pop(index), with index counted from 0
Pop(books, index) == SubSeq(books, 1, index) \o SubSeq(books, index + 2, Len(books))

\* _delete_book(book_id)
DeleteAt(books, book_index) ==
    IF book_index = -1 THEN [result |-> "NotFoundInTheLibrary", books |-> books]
    ELSE [result |-> "ok", books |-> Pop(books, book_index)]
DeleteBook(books, book_id) == DeleteAt(books, FindBook(books, book_id))

\* Flip with a fault: the book is marked as given out whatever it was
FlipOneWay(status) == CHECKED_OUT

\* the exchange of the two statuses in _change_book_status
Flip(status) == IF status = AVAILABLE THEN CHECKED_OUT ELSE AVAILABLE

\* ChangeAt with a fault: the status of every book is changed
ChangeAtAll(books, book_index) ==
    IF book_index = -1 THEN [result |-> "NotFoundInTheLibrary", books |-> books]
    ELSE [result |-> "ok",
          books |-> [i \in DOMAIN books |-> [books[i] EXCEPT !.status = Flip(@)]]]

\* _change_book_status(book_id)
ChangeAt(books, book_index) ==
    IF book_index = -1 THEN [result |-> "NotFoundInTheLibrary", books |-> books]
    ELSE [result |-> "ok", books |-> [books EXCEPT ![book_index + 1].status = Flip(@)]]
ChangeBookStatus(books, book_id) == ChangeAt(books, FindBook(books, book_id))

----------------------------------------------------------------------------
(* What the user types *)

MinusOne == <<"-", "1">>
FieldSep == <<",", " ">>

\* titles: "ab", "aB " and "1984" are let through, "a" is not
TitleAb     == <<"a", "b">>
TitleAbAlt  == <<"a", "B", " ">>
Title1984   == <<"1", "9", "8", "4">>
TitleBad    == <<"a">>
\* authors: "homer", "HOMER" and "li bai" are let through
AuthorHomer    == <<"h", "o", "m", "e", "r">>
AuthorHomerAlt == <<"H", "O", "M", "E", "R">>
AuthorLiBai    == <<"l", "i", " ", "b", "a", "i">>
\* years: "1999" and "2026" are let through, "2027" is not
Year1999  == <<"1", "9", "9", "9">>
Year2026  == <<"2", "0", "2", "6">>
YearAfter == <<"2", "0", "2", "7">>

Line(title, author, year) == title \o FieldSep \o author \o FieldSep \o year

\* the lines typed at handle_add_book
AddLines ==
    { Line(TitleAb, AuthorHomer, Year1999),
      Line(TitleAbAlt, AuthorHomerAlt, Year1999),
      Line(Title1984, AuthorHomer, Year1999),
      Line(TitleAb, AuthorLiBai, Year1999),
      Line(TitleAb, AuthorHomer, Year2026),
      Line(TitleBad, AuthorHomer, Year1999),
      Line(TitleAb, AuthorHomer, YearAfter),
      TitleAb \o FieldSep \o AuthorHomer,
      MinusOne }

\* the decimal numeral of a number below ten
Numeral(n) == <<DigitChars[n + 1]>>

\* the lines typed at handle_delete_book and handle_change_status
IdLines ==
    {Numeral(i) : i \in 1..(MaxId + 1)} \cup {<<"x">>, MinusOne}

Query(field, value) == field \o QuerySep \o value

IsbnKey == <<"i", "s", "b", "n">>

\* the lines typed at handle_search_books
SearchLines ==
    { Query(TitleKey, TitleAb), Query(TitleKey, Title1984),
      Query(AuthorKey, AuthorHomer), Query(AuthorKey, AuthorLiBai),
      Query(YearKey, Year1999),
      Query(<<"T", "i", "t", "l", "e", " ">>, TitleAb),
      Query(IsbnKey, TitleAb),
      Query(IsbnKey, Query(TitleAb, TitleAb)),
      MinusOne }

\* what is typed at the menu: the six commands, one with blanks around it, and
\* one that is no command
MenuLines == {<<"1">>, <<"2">>, <<"3">>, <<"4">>, <<"5">>, <<"0">>, <<" ", "1", " ">>, <<"9">>}

----------------------------------------------------------------------------
(* The state after LibraryManager() with no app/library.json, or an empty list in it *)

Handlers == {"add", "delete", "status", "search"}

\* a step of op on the typed line: result is "ok" or the exception raised,
\* found the books shown, write what became of the call of _update_data
Step(op, line, result, found, write) ==
    [op |-> op, input |-> line, result |-> result, found |-> found, write |-> write]

NoCall == Step("none", <<>>, "ok", <<>>, "none")

\* no validator is being called on its own
NoCheck == [pc |-> "idle", validator |-> "none", arg |-> <<>>, ok |-> FALSE, value |-> <<>>]

FindIdle == [pc |-> "idle", book_id |-> 0, low_bound |-> 0, high_bound |-> 0, result |-> 0]

\* LoadedBooks with a fault: the file is not read
LoadedBooksNone(f) == <<>>

\* Library.__post_init__: the list a new Library has for the file it finds: the
\* decoded list, or none when the file does not decode or is not there
LoadedBooks(f) == IF f.kind = "json" THEN f.data ELSE <<>>

\* Library.__post_init__: the file it leaves: a file that is not there is
\* created with an empty list in it, any other is left as it is
LoadedFile(f) == IF f.kind = "missing" THEN [kind |-> "json", data |-> <<>>] ELSE f

Init ==
    /\ books_data = <<>>
    /\ file = [kind |-> "json", data |-> <<>>]
    /\ pc = "menu"
    /\ last = NoCall
    /\ assigned_ids = {}
    /\ find = FindIdle
    /\ checked = NoCheck

----------------------------------------------------------------------------
(* run() and the handlers *)

\* _update_data(books): the file is opened for writing and the list dumped into
\* it; the open may fail (the file is as it was) and the dump may fail (the file
\* is cut short); either error leaves run()
WriteOutcomes == {"ok", "open_failed", "dump_failed"}

\* UpdateData with a fault: the list is written after what the file held
UpdateDataAppend(books, outcome) ==
    IF outcome = "ok" THEN [kind |-> "json", data |-> file.data \o books]
    ELSE IF outcome = "open_failed" THEN file
    ELSE [kind |-> "corrupt", data |-> <<>>]

UpdateData(books, outcome) ==
    IF outcome = "ok" THEN [kind |-> "json", data |-> books]
    ELSE IF outcome = "open_failed" THEN file
    ELSE [kind |-> "corrupt", data |-> <<>>]

\* the end of a handler's try: books is the list as the call left it (the call
\* works on the list in place); on an exception of the call the prompt is shown
\* again; otherwise the data is written and the handler breaks
Finish(op, line, result, books, found) ==
    IF result = "ok"
    THEN \E outcome \in WriteOutcomes :
         /\ books_data' = books
         /\ file' = UpdateData(books, outcome)
         /\ pc' = IF outcome = "ok" THEN "menu" ELSE "crashed"
         /\ last' = Step(op, line, "ok", found, outcome)
    ELSE /\ books_data' = books
         /\ UNCHANGED <<file, pc>>
         /\ last' = Step(op, line, result, found, "none")

\* run(): a command that opens a handler
MenuSelect(line) ==
    /\ pc = "menu"
    /\ PyStrip(line) \in {<<"1">>, <<"2">>, <<"3">>, <<"5">>}
    /\ pc' = CASE PyStrip(line) = <<"1">> -> "add"
               [] PyStrip(line) = <<"2">> -> "delete"
               [] PyStrip(line) = <<"3">> -> "status"
               [] OTHER -> "search"
    /\ last' = Step("menu", line, "ok", <<>>, "none")
    /\ UNCHANGED <<books_data, file, assigned_ids, find, checked>>

\* run(): command 4, handle_list_books and _list_all_books
MenuList(line) ==
    /\ pc = "menu"
    /\ PyStrip(line) = <<"4">>
    /\ last' = Step("list", line, "ok", books_data, "none")
    /\ UNCHANGED <<books_data, file, pc, assigned_ids, find, checked>>

\* run(): command 0, handle_exit and the break
MenuExit(line) ==
    /\ pc = "menu"
    /\ PyStrip(line) = <<"0">>
    /\ pc' = "exited"
    /\ last' = Step("exit", line, "ok", <<>>, "none")
    /\ UNCHANGED <<books_data, file, assigned_ids, find, checked>>

\* run(): no option has this value, ValueError is raised and nothing catches it
MenuUnknown(line) ==
    /\ pc = "menu"
    /\ PyStrip(line) \notin {<<"1">>, <<"2">>, <<"3">>, <<"4">>, <<"5">>, <<"0">>}
    /\ pc' = "crashed"
    /\ last' = Step("menu", line, "ValueError", <<>>, "none")
    /\ UNCHANGED <<books_data, file, assigned_ids, find, checked>>

\* a handler's input loop: "-1" goes back to the menu
Back(line) ==
    /\ pc \in Handlers
    /\ line = MinusOne
    /\ pc' = "menu"
    /\ last' = Step("back", line, "ok", <<>>, "none")
    /\ UNCHANGED <<books_data, file, assigned_ids, find, checked>>

Ids(books) == {books[i].id : i \in DOMAIN books}

\* the call of _add_book with the fields of the line: TypeError when they are not three
AddFields(fields) ==
    IF Len(fields) # 3 THEN [result |-> "TypeError", books |-> books_data]
    ELSE AddBook(books_data, fields[1], fields[2], fields[3])

AddDone(line, r) ==
    /\ r.result = "ok" => \A id \in Ids(r.books) : id <= MaxId
    /\ Finish("add", line, r.result, r.books, <<>>)
    /\ assigned_ids' = IF r.result = "ok"
                        THEN assigned_ids \cup (Ids(r.books) \ Ids(books_data))
                        ELSE assigned_ids

\* handle_add_book, one turn of its loop
HandleAddBook(line) ==
    /\ pc = "add"
    /\ line # MinusOne
    /\ AddDone(line, AddFields(PySplit(line, FieldSep)))
    /\ UNCHANGED <<find, checked>>

\* int(line) and then the call of _delete_book
DeleteId(id) ==
    IF ~id.ok THEN [result |-> "ValueError", books |-> books_data]
    ELSE DeleteBook(books_data, id.n)

CallDone(op, line, r) == Finish(op, line, r.result, r.books, <<>>)

\* handle_delete_book, one turn of its loop
HandleDeleteBook(line) ==
    /\ pc = "delete"
    /\ line # MinusOne
    /\ CallDone("delete", line, DeleteId(PyInt(line)))
    /\ UNCHANGED <<assigned_ids, find, checked>>

\* int(line) and then the call of _change_book_status
ChangeId(id) ==
    IF ~id.ok THEN [result |-> "ValueError", books |-> books_data]
    ELSE ChangeBookStatus(books_data, id.n)

\* handle_change_status, one turn of its loop
HandleChangeStatus(line) ==
    /\ pc = "status"
    /\ line # MinusOne
    /\ CallDone("status", line, ChangeId(PyInt(line)))
    /\ UNCHANGED <<assigned_ids, find, checked>>

SearchDone(line, r) ==
    /\ pc' = IF r.result = "ok" THEN "menu" ELSE pc
    /\ last' = Step("search", line, r.result, r.found, "none")

\* handle_search_books, one turn of its loop: nothing is written
HandleSearchBooks(line) ==
    /\ pc = "search"
    /\ line # MinusOne
    /\ SearchDone(line, SearchBooksBy(books_data, line, FALSE))
    /\ UNCHANGED <<books_data, file, assigned_ids, find, checked>>

Next ==
    \/ \E line \in MenuLines : MenuSelect(line)
    \/ \E line \in MenuLines : MenuList(line)
    \/ \E line \in MenuLines : MenuExit(line)
    \/ \E line \in MenuLines : MenuUnknown(line)
    \/ \E line \in AddLines \cup IdLines \cup SearchLines : Back(line)
    \/ \E line \in AddLines : HandleAddBook(line)
    \/ \E line \in IdLines : HandleDeleteBook(line)
    \/ \E line \in IdLines : HandleChangeStatus(line)
    \/ \E line \in SearchLines : HandleSearchBooks(line)

Spec == Init /\ [][Next]_vars

----------------------------------------------------------------------------
(* _find_book_in_the_library, turn by turn, on every ascending list of ids *)

\* the list of books with the ids of S, in ascending order
AscendingBooks(S) ==
    [i \in 1..Cardinality(S) |->
        [NoBook EXCEPT !.id = CHOOSE e \in S : Cardinality({x \in S : x <= e}) = i]]

FindInit ==
    /\ \E S \in SUBSET (0..MaxFindId) : books_data = AscendingBooks(S)
    /\ \E book_id \in -1..(MaxFindId + 1) :
          find = [pc |-> "loop", book_id |-> book_id, low_bound |-> 0,
                  high_bound |-> Len(books_data) - 1, result |-> 0]
    /\ file = [kind |-> "json", data |-> books_data]
    /\ pc = "delete"
    /\ last = NoCall
    /\ assigned_ids = {}
    /\ checked = NoCheck

FindTurned(it) ==
    find' = IF it.done
            THEN [find EXCEPT !.pc = "done", !.result = it.result]
            ELSE [find EXCEPT !.low_bound = it.low_bound, !.high_bound = it.high_bound]

\* while low_bound <= high_bound: one turn
FindStep ==
    /\ find.pc = "loop"
    /\ find.low_bound <= find.high_bound
    /\ FindTurned(FindIter(books_data, find.book_id, find.low_bound, find.high_bound))
    /\ UNCHANGED <<books_data, file, pc, last, assigned_ids, checked>>

\* the loop is left: return -1
FindMiss ==
    /\ find.pc = "loop"
    /\ find.low_bound > find.high_bound
    /\ find' = [find EXCEPT !.pc = "done", !.result = -1]
    /\ UNCHANGED <<books_data, file, pc, last, assigned_ids, checked>>

FindNext == FindStep \/ FindMiss

\* the call runs on: nothing suspends a turn of the loop
SpecFind == FindInit /\ [][FindNext]_vars /\ WF_vars(FindNext)

----------------------------------------------------------------------------
(* The Book validators, each called once on every argument of a bounded set *)

\* the characters the authors and the titles tried are made of
AuthorAlphabet == {"a", "-", " ", "'", "\t", "1"}
TitleAlphabet == {"a", "1", "9", " ", "."}

\* every str of at most n characters of the alphabet
Strings(alphabet, n) == UNION {[1..k -> alphabet] : k \in 0..n}

AuthorArgs == Strings(AuthorAlphabet, MaxAuthorLen)
TitleArgs == Strings(TitleAlphabet, MaxTitleLen)

\* str(n) of a natural number and of an integer
RECURSIVE NatStr(_)
NatStr(n) == IF n < 10 THEN <<DigitChars[n + 1]>>
             ELSE Append(NatStr(n \div 10), DigitChars[(n % 10) + 1])
IntStr(n) == IF n < 0 THEN <<"-">> \o NatStr(-n) ELSE NatStr(n)

\* the years of tests.py, and the years around 0 and around the current year
TestYears == {-100, 10000, 2030, 0, 2024, 100, 1500, 1, 1000}
YearNumbers ==
    TestYears \cup ((-MaxYearOffset)..MaxYearOffset)
              \cup ((CurrentYear - MaxYearOffset)..(CurrentYear + MaxYearOffset))
YearArgs == {IntStr(n) : n \in YearNumbers}

Call(validator, arg) ==
    [pc |-> "call", validator |-> validator, arg |-> arg, ok |-> FALSE, value |-> <<>>]

ValidateInit ==
    /\ checked \in {Call("title", arg) : arg \in TitleArgs}
                   \cup {Call("author", arg) : arg \in AuthorArgs}
                   \cup {Call("year", arg) : arg \in YearArgs}
    /\ books_data = <<>>
    /\ file = [kind |-> "json", data |-> <<>>]
    /\ pc = "add"
    /\ last = NoCall
    /\ assigned_ids = {}
    /\ find = FindIdle

\* the validator returns the value or raises ValueError
Returned(r) ==
    /\ checked' = [checked EXCEPT !.pc = "done", !.ok = r.ok, !.value = r.value]
    /\ UNCHANGED <<books_data, file, pc, last, assigned_ids, find>>

ValidateTitleCall ==
    /\ checked.pc = "call"
    /\ checked.validator = "title"
    /\ Returned(ValidateTitle(checked.arg))

ValidateAuthorCall ==
    /\ checked.pc = "call"
    /\ checked.validator = "author"
    /\ Returned(ValidateAuthor(checked.arg))

ValidateYearCall ==
    /\ checked.pc = "call"
    /\ checked.validator = "year"
    /\ Returned(ValidateYear(checked.arg))

ValidateNext == ValidateTitleCall \/ ValidateAuthorCall \/ ValidateYearCall

SpecValidate == ValidateInit /\ [][ValidateNext]_vars

----------------------------------------------------------------------------
(* Library(): the construction, on every file of a bounded set *)

\* the books the stored lists are made of
StoredBooks ==
    {[NoBook EXCEPT !.id = id, !.status = status] :
        id \in 1..2, status \in {AVAILABLE, CHECKED_OUT}}

\* the files found: one that holds a list, whatever its order, one that json
\* does not decode, none, and one that cannot be opened or read as utf-8
StoredFiles ==
    {[kind |-> "json", data |-> data] : data \in Strings(StoredBooks, MaxStored)}
        \cup {[kind |-> kind, data |-> <<>>] : kind \in {"corrupt", "missing", "unreadable"}}

LoadInit ==
    /\ file \in StoredFiles
    /\ books_data = <<>>
    /\ pc = "start"
    /\ last = NoCall
    /\ assigned_ids = {}
    /\ find = FindIdle
    /\ checked = NoCheck

\* json.load returns the list
LoadJson ==
    /\ pc = "start"
    /\ file.kind = "json"
    /\ books_data' = LoadedBooks(file)
    /\ file' = LoadedFile(file)
    /\ pc' = "menu"
    /\ last' = Step("start", <<>>, "ok", <<>>, "none")
    /\ UNCHANGED <<assigned_ids, find, checked>>

\* except json.JSONDecodeError: the error is printed, the list is empty
LoadCorrupt ==
    /\ pc = "start"
    /\ file.kind = "corrupt"
    /\ books_data' = LoadedBooks(file)
    /\ file' = LoadedFile(file)
    /\ pc' = "menu"
    /\ last' = Step("start", <<>>, "ok", <<>>, "none")
    /\ UNCHANGED <<assigned_ids, find, checked>>

\* except FileNotFoundError: the file is created with [] in it; this write may
\* fail as any other, and then Library() raises
LoadMissing ==
    /\ pc = "start"
    /\ file.kind = "missing"
    /\ \E outcome \in WriteOutcomes :
          /\ books_data' = LoadedBooks(file)
          /\ file' = IF outcome = "ok" THEN LoadedFile(file)
                     ELSE IF outcome = "open_failed" THEN file
                     ELSE [kind |-> "corrupt", data |-> <<>>]
          /\ pc' = IF outcome = "ok" THEN "menu" ELSE "crashed"
          /\ last' = Step("start", <<>>, "ok", <<>>, outcome)
    /\ UNCHANGED <<assigned_ids, find, checked>>

\* any other error of open or of the decoding is caught by neither except
LoadUnreadable ==
    /\ pc = "start"
    /\ file.kind = "unreadable"
    /\ pc' = "crashed"
    /\ last' = Step("start", <<>>, "OSError", <<>>, "none")
    /\ UNCHANGED <<books_data, file, assigned_ids, find, checked>>

LoadNext == LoadJson \/ LoadCorrupt \/ LoadMissing \/ LoadUnreadable

SpecLoad == LoadInit /\ [][LoadNext]_vars

----------------------------------------------------------------------------
(* The properties *)

Triple(book) == <<book.title, book.author, book.year>>
Triples(books) == {Triple(books[i]) : i \in DOMAIN books}

AddOk == last.op = "add" /\ last.result = "ok"
DeleteOk == last.op = "delete" /\ last.result = "ok"
StatusOk == last.op = "status" /\ last.result = "ok"

\* C1: the books are in strictly ascending order of id, so no two share an id
C1_AscendingIds ==
    \A i \in 1..(Len(books_data) - 1) : books_data[i].id < books_data[i + 1].id

\* an add has gone through after a delete left a gap before the first book
C1_Witness ==
    /\ AddOk
    /\ Len(books_data) >= 2
    /\ books_data[1].id > 1

\* C2: no two books have the same (title, author, year)
C2_UniqueTriples ==
    \A i, j \in DOMAIN books_data :
        i # j => Triple(books_data[i]) # Triple(books_data[j])

\* a book that is there was typed again, with two books in the list
C2_Witness ==
    /\ last.op = "add"
    /\ last.result = "AlreadyInTheLibrary"
    /\ Len(books_data) >= 2

\* C3: an add that goes through appends one book at the end, with the id of the
\* book that was last plus one, or 1 on an empty list; the books that were
\* there stay as they were
C3_AddAppends ==
    [][AddOk' =>
        /\ Len(books_data') = Len(books_data) + 1
        /\ SubSeq(books_data', 1, Len(books_data)) = books_data
        /\ books_data'[Len(books_data')].id =
              IF books_data = <<>> THEN 1 ELSE books_data[Len(books_data)].id + 1]_vars

\* an add has gone through on a list whose ids had a gap
C3_Witness ==
    /\ AddOk
    /\ Len(books_data) = 2
    /\ books_data[2].id = 3

\* C4: an add that goes through gives an id above every id an earlier add gave
C4_IdsNeverReused ==
    [][AddOk' =>
        \A id \in assigned_ids : books_data'[Len(books_data')].id > id]_vars

\* the book a line of three fields stands for, when the validators let it through
LineFields(line) == PySplit(line, FieldSep)
LineBook(line) == Book(0, LineFields(line)[1], LineFields(line)[2], LineFields(line)[3])
ValidLine(line) == Len(LineFields(line)) = 3 /\ LineBook(line).ok

\* C5: a valid book whose (title, author, year) is in the list is refused with
\* AlreadyInTheLibrary, and a valid book that differs from every book of the
\* list in one of the three is added
C5_DuplicateRefused ==
    [][(last'.op = "add" /\ ValidLine(last'.input)) =>
        IF Triple(LineBook(last'.input).book) \in Triples(books_data)
        THEN last'.result = "AlreadyInTheLibrary" /\ books_data' = books_data
        ELSE /\ last'.result = "ok"
             /\ Triples(books_data') =
                   Triples(books_data) \cup {Triple(LineBook(last'.input).book)}]_vars

\* a book has been added that shares two of the three fields with another one
C5_Witness ==
    /\ AddOk
    /\ \E i, j \in DOMAIN books_data :
          /\ books_data[i].title = books_data[j].title
          /\ books_data[i].author = books_data[j].author
          /\ books_data[i].year # books_data[j].year

\* the search a user makes for the k-th field of the line just added
SearchAdded(k) ==
    SearchBooksBy(books_data,
                  Query(<<TitleKey, AuthorKey, YearKey>>[k], LineFields(last.input)[k]),
                  FALSE)

\* C6: after an add, the search by title, by author and by year for the value
\* that was added each finds the added book with its normalized values
C6_AddedIsFound ==
    AddOk =>
        \A k \in 1..3 :
            /\ SearchAdded(k).result = "ok"
            /\ \E i \in DOMAIN SearchAdded(k).found :
                  /\ SearchAdded(k).found[i] = books_data[Len(books_data)]
                  /\ Triple(SearchAdded(k).found[i]) = Triple(LineBook(last.input).book)

\* what the search has to return on the list for the id looked up
FindCorrect ==
    IF find.book_id \in Ids(books_data)
    THEN /\ find.result \in 0..(Len(books_data) - 1)
         /\ books_data[find.result + 1].id = find.book_id
    ELSE find.result = -1

\* C7: on every ascending list the search ends, with the place of the id when
\* it is in the list and with -1 when it is not
C7_BinarySearch ==
    /\ <>(find.pc = "done")
    /\ [](find.pc = "done" => FindCorrect)

\* the search has found the last of three or more books
C7_Witness ==
    /\ find.pc = "done"
    /\ Len(books_data) >= 3
    /\ find.result = Len(books_data) - 1

\* C8: a delete that goes through takes out the book with the id and nothing
\* else: the other books are as they were, in the order they were in
C8_DeleteRemovesOne ==
    [][DeleteOk' =>
        \E i \in DOMAIN books_data :
            /\ books_data[i].id = PyInt(last'.input).n
            /\ Len(books_data') = Len(books_data) - 1
            /\ \A j \in DOMAIN books_data' :
                  books_data'[j] = IF j < i THEN books_data[j] ELSE books_data[j + 1]]_vars

\* the middle one of three books has been deleted, the others differ in status
C8_Witness ==
    /\ DeleteOk
    /\ Len(books_data) = 2
    /\ books_data[1].id = 1 /\ books_data[2].id = 3
    /\ books_data[1].status # books_data[2].status

\* C9: for every book of the list, changing its status twice in a row gives
\* back the list as it was
C9_ToggleTwice ==
    \A id \in Ids(books_data) :
        /\ ChangeBookStatus(books_data, id).result = "ok"
        /\ ChangeBookStatus(books_data, id).books # books_data
        /\ ChangeBookStatus(ChangeBookStatus(books_data, id).books, id) =
              [result |-> "ok", books |-> books_data]

\* a status has been changed, and the list holds books of both statuses
C9_Witness ==
    /\ StatusOk
    /\ \E i, j \in DOMAIN books_data :
          books_data[i].status = AVAILABLE /\ books_data[j].status = CHECKED_OUT

\* the two sides of a query with one separator
QueryParts(line) == PySplit(line, QuerySep)

\* C10 as stated: a search whose field name is none of title, author, year
\* fails with IncorrectSearchFields
C10_UnknownFieldAsTyped ==
    (/\ last.op = "search"
     /\ Len(QueryParts(last.input)) = 2
     /\ QueryParts(last.input)[1] \notin {TitleKey, AuthorKey, YearKey})
        => last.result = "IncorrectSearchFields"

\* C10, amended: a search with one separator whose field name, lower-cased and
\* stripped, is none of title, author, year fails with IncorrectSearchFields
C10_UnknownField ==
    (/\ last.op = "search"
     /\ Len(QueryParts(last.input)) = 2
     /\ PyStrip(PyLower(QueryParts(last.input)[1])) \notin {TitleKey, AuthorKey, YearKey})
        => last.result = "IncorrectSearchFields"

\* a search by an unknown field has failed on a list with books
C10_Witness ==
    /\ last.op = "search"
    /\ last.result = "IncorrectSearchFields"
    /\ books_data # <<>>

\* the search value as the validator of the field yields it: a year as an
\* integer, a title or an author stripped and title-cased
NormalizedValue(search_field, raw_value) ==
    IF search_field = YearKey /\ PyInt(raw_value).ok
    THEN IntValue(PyInt(raw_value).n)
    ELSE StrValue(SearchValue(raw_value))

\* the stored books whose field is the value, in stored order
Matches(books, search_field, value) ==
    SelectSeq(books, LAMBDA book : Get(book, search_field) = value)

\* what a search with these matches yields to the user and to _add_book
SearchYields(matches, shown, internal) ==
    /\ internal = [result |-> "ok", found |-> matches]
    /\ IF matches = <<>>
       THEN shown.result = "NotFoundInTheLibrary"
       ELSE shown.result = "ok" /\ shown.found = matches

\* C11: a search by an allowed field yields the stored books whose field is the
\* normalized value, in stored order; with no such book it fails with
\* NotFoundInTheLibrary for the user and returns an empty list to _add_book
C11_SearchYieldsMatches ==
    (/\ last.op = "search"
     /\ Len(QueryParts(last.input)) = 2
     /\ AllowedField(SearchField(QueryParts(last.input)[1])))
        => SearchYields(Matches(books_data, SearchField(QueryParts(last.input)[1]),
                                NormalizedValue(SearchField(QueryParts(last.input)[1]),
                                                QueryParts(last.input)[2])),
                        last,
                        SearchBooksBy(books_data, last.input, TRUE))

\* the same for the fields title and author only, whose stored values are strings
C11_TextSearchYieldsMatches ==
    (/\ last.op = "search"
     /\ Len(QueryParts(last.input)) = 2
     /\ SearchField(QueryParts(last.input)[1]) \in {TitleKey, AuthorKey})
        => SearchYields(Matches(books_data, SearchField(QueryParts(last.input)[1]),
                                StrValue(SearchValue(QueryParts(last.input)[2]))),
                        last,
                        SearchBooksBy(books_data, last.input, TRUE))

\* an add, a delete or a change of status went through and its data was written
Committed ==
    /\ last.op \in {"add", "delete", "status"}
    /\ last.result = "ok"
    /\ last.write = "ok"

\* C12: after an add, a delete or a change of status that went through and was
\* written, the file holds the list of books as it is in memory, the same
\* records in the same order, and nothing of what it held before
C12_FileHoldsBooks ==
    Committed => file = [kind |-> "json", data |-> books_data]

\* a status was changed and written with two books in the list
C12_Witness ==
    /\ Committed
    /\ last.op = "status"
    /\ Len(books_data) = 2
    /\ file.data = books_data

\* the call of _update_data of this step raised
WriteFailed == last.write \in {"open_failed", "dump_failed"}

\* C13: when the write of an add, a delete or a change of status fails, the
\* error leaves the handler and the operation is not committed: the list of
\* books is as it was before the operation, in this run and in the list the
\* next run loads from the file
C13_FailedWriteNotCommitted ==
    [][WriteFailed' => (/\ pc' = "crashed"
                        /\ books_data' = books_data
                        /\ LoadedBooks(file') = books_data)]_vars

\* the second half alone: what the next run loads is the list before the operation
C13_NextRunAsBefore ==
    [][WriteFailed' => LoadedBooks(file') = books_data]_vars

\* a validator was called with arg and has returned or raised
Checked(validator) == checked.pc = "done" /\ checked.validator = validator

\* C14: the year validator accepts an integer year when it is at least 1 and at
\* most the current year, and then returns it; it raises for 0, for a negative
\* year and for a year after the current one
C14_YearRange ==
    \A n \in YearNumbers :
        (Checked("year") /\ checked.arg = IntStr(n))
            => /\ checked.ok <=> (1 <= n /\ n <= CurrentYear)
               /\ checked.ok => checked.value = n

\* the current year was accepted
C14_Witness ==
    /\ Checked("year")
    /\ checked.arg = IntStr(CurrentYear)
    /\ checked.ok

\* the year 0 was refused
C14_WitnessZero ==
    /\ Checked("year")
    /\ checked.arg = <<"0">>
    /\ ~checked.ok

\* the runs of s between the characters of seps, the empty runs too
RECURSIVE RunsOf(_, _)
RunsOf(s, seps) ==
    IF \E i \in DOMAIN s : s[i] \in seps
    THEN <<SubSeq(s, 1, (CHOOSE i \in DOMAIN s :
                            s[i] \in seps /\ \A j \in 1..(i - 1) : s[j] \notin seps) - 1)>>
         \o RunsOf(SubSeq(s, (CHOOSE i \in DOMAIN s :
                                 s[i] \in seps /\ \A j \in 1..(i - 1) : s[j] \notin seps) + 1,
                          Len(s)), seps)
    ELSE <<s>>

\* one run of five or more letters, or a first run of at least first letters and
\* one or more further runs of at least later letters each
AuthorShape(runs, first, later) ==
    /\ \A k \in DOMAIN runs : \A i \in DOMAIN runs[k] : IsLetter(runs[k][i])
    /\ \/ Len(runs) = 1 /\ Len(runs[1]) >= 5
       \/ /\ Len(runs) >= 2
          /\ Len(runs[1]) >= first
          /\ \A k \in 2..Len(runs) : Len(runs[k]) >= later

\* C15 as stated: the author validator accepts a str when and only when it is
\* one run of five or more letters, or two or more runs of two or more letters
\* each with one hyphen or one space between consecutive runs
C15_AuthorShapeAsStated ==
    Checked("author")
        => (checked.ok <=> AuthorShape(RunsOf(checked.arg, {"-", " "}), 2, 2))

\* C15, amended: the author validator accepts a str when and only when it is
\* one run of five or more letters, or a run of two or more letters followed by
\* one or more runs of one or more letters each, with one hyphen, apostrophe or
\* whitespace character between consecutive runs
C15_AuthorShape ==
    Checked("author")
        => (checked.ok <=> AuthorShape(RunsOf(checked.arg, {"-", "'"} \cup Spaces), 2, 1))

\* a name with an apostrophe and a one-letter run was accepted
C15_Witness ==
    /\ Checked("author")
    /\ checked.arg = <<"a", "a", "'", "a">>
    /\ checked.ok

\* a str of digits and nothing else
DigitsOnly(s) == Len(s) >= 1 /\ \A i \in DOMAIN s : IsDigit(s[i])

\* C16: the title validator raises for every title of one character and for
\* every title of digits only that is not four digits long, and accepts every
\* title of four digits
C16_TitleDigits ==
    Checked("title")
        => /\ Len(checked.arg) = 1 => ~checked.ok
           /\ DigitsOnly(checked.arg) => (checked.ok <=> Len(checked.arg) = 4)

\* a title of four digits was accepted
C16_Witness ==
    /\ Checked("title")
    /\ checked.arg = <<"1", "9", "1", "9">>
    /\ checked.ok
    /\ checked.value = checked.arg

\* a title of five digits was refused
C16_WitnessFive ==
    /\ Checked("title")
    /\ checked.arg = <<"1", "1", "1", "1", "1">>
    /\ ~checked.ok

\* the status of every book is one of the two
StatusesKnown(books) == \A i \in DOMAIN books : books[i].status \in {AVAILABLE, CHECKED_OUT}

\* the books of before and after with the same id, whose statuses differ
StatusChanged(before, after) ==
    {before[i].id : i \in {i \in DOMAIN before :
        \E j \in DOMAIN after : after[j].id = before[i].id /\ after[j].status # before[i].status}}

\* C17: the book an add appends is AVAILABLE, the status of every book is
\* always AVAILABLE or CHECKED_OUT, and the status of a book changes only in a
\* change of status of its own id that went through; every other step, an add,
\* a delete, a search, a listing, a call that raised, leaves it as it was
C17_StatusChanges ==
    [][/\ StatusesKnown(books_data')
       /\ AddOk' => books_data'[Len(books_data')].status = AVAILABLE
       /\ StatusChanged(books_data, books_data') # {}
             => (StatusOk' /\ StatusChanged(books_data, books_data') = {PyInt(last'.input).n})]_vars

\* a book was added after another was given out: the new one is AVAILABLE and
\* the other is still CHECKED_OUT
C17_Witness ==
    /\ AddOk
    /\ Len(books_data) = 2
    /\ books_data[1].status = CHECKED_OUT
    /\ books_data[2].status = AVAILABLE

\* C18: a change of status that goes through changes the status of the book
\* with the id and nothing else: the books are as many and in the same order,
\* the book with the id keeps its id, title, author and year, and every other
\* book is as it was
C18_ToggleFrame ==
    [][StatusOk' =>
        /\ Len(books_data') = Len(books_data)
        /\ \A j \in DOMAIN books_data :
              IF books_data[j].id = PyInt(last'.input).n
              THEN /\ books_data'[j] = [books_data[j] EXCEPT !.status = books_data'[j].status]
                   /\ books_data'[j].status # books_data[j].status
              ELSE books_data'[j] = books_data[j]]_vars

\* the middle one of three books has been given out
C18_Witness ==
    /\ StatusOk
    /\ Len(books_data) = 3
    /\ PyInt(last.input).n = books_data[2].id
    /\ books_data[2].status = CHECKED_OUT
    /\ books_data[1].status = AVAILABLE /\ books_data[3].status = AVAILABLE

\* C19: the construction of the Library ends with the decoded list when the
\* file holds one, with an empty list and no error when json does not decode
\* the file, and with an empty list and a new file holding an empty list when
\* there was no file
C19_Construction ==
    [][pc = "start" =>
        /\ file.kind = "json" => (pc' = "menu" /\ books_data' = file.data /\ file' = file)
        /\ file.kind = "corrupt" => (pc' = "menu" /\ books_data' = <<>>)
        /\ (file.kind = "missing" /\ pc' = "menu")
              => (books_data' = <<>> /\ file' = [kind |-> "json", data |-> <<>>])]_vars

\* a list of two books, not in the order of their ids, was loaded
C19_Witness ==
    /\ last.op = "start"
    /\ pc = "menu"
    /\ Len(books_data) = 2
    /\ books_data[1].id > books_data[2].id
    /\ file.data = books_data

\* a file that was not there has been created
C19_WitnessMissing ==
    /\ last.op = "start"
    /\ last.write = "ok"
    /\ pc = "menu"
    /\ books_data = <<>>

\* a call of a handler raised one of the errors the handler catches
Raised == last.op \in Handlers /\ last.result # "ok"

\* C20: an add, a delete, a change of status or a search that raises (a bad
\* field, a book already there, an id not there, a wrong search field, no
\* match) leaves the list of books and the file as they were and writes nothing
C20_FailureChangesNothing ==
    [][Raised' => (/\ books_data' = books_data
                   /\ file' = file
                   /\ last'.write = "none")]_vars

\* an add of a book already there was refused with two books in the list
C20_Witness ==
    /\ last.op = "add"
    /\ last.result = "AlreadyInTheLibrary"
    /\ Len(books_data) = 2
    /\ file = [kind |-> "json", data |-> books_data]

\* each of the other errors has been raised with books in the list
C20_WitnessDelete == last.op = "delete" /\ last.result = "NotFoundInTheLibrary" /\ books_data # <<>>
C20_WitnessStatus == last.op = "status" /\ last.result = "NotFoundInTheLibrary" /\ books_data # <<>>
C20_WitnessSearch == last.op = "search" /\ last.result = "NotFoundInTheLibrary" /\ books_data # <<>>
C20_WitnessField == last.op = "add" /\ last.result = "ValueError" /\ books_data # <<>>

\* run() is in its loop: at the menu or at the prompt of a handler
Running == pc \in {"menu"} \cup Handlers

\* C21: run() ends only by the command EXIT: after any other line typed at the
\* menu, one that is no command too, and after any operation that raised, the
\* program has not ended and prompts again
C21_EndsOnlyOnExit ==
    ~Running => (last.op = "exit" /\ pc = "exited")

\* the part about the errors the handlers catch: after a call that raised the
\* handler prompts again
C21_RaisedGoesOn ==
    Raised => pc = last.op

====
